---- MODULE Spec2Model ----
(***************************************************************************)
(* A model of the TOTP port-hopping tunnel (modules/route/route.py and the *)
(* stand-alone server.py / client.py variants).                            *)
(*                                                                         *)
(* Time is counted in whole seconds of time.time().  The runs of the       *)
(* server and of the client are at non-negative times (time.time() is a    *)
(* positive epoch time), where int(t) is the floor of t; the window        *)
(* computation taken alone is also applied to negative times.              *)
(***************************************************************************)
EXTENDS Integers, Sequences, FiniteSets, TLC

(* ------------------------------ bounds --------------------------------- *)
\* how many TOTP windows of wall-clock time a run of the server covers
Windows == 2
\* how far the clock may run ahead of the loop's last reading while the
\* loop is executing (scheduling delay), and of a wait's deadline
MaxLag == 1
\* socket objects alive at once (open, or closed but still referenced)
MaxSockets == 4
\* handler threads the loop may start in one run
MaxThreads == 1
\* evaluation times 0..MaxEval for the port derivation taken alone
MaxEval == 95
\* seconds of wall-clock time a run of the client covers
ClientSpan == 16
\* local connections / datagrams the client loop dispatches in one run
MaxServed == 2
\* bytes an endpoint of a TCP session sends in one run, and bytes in flight
MaxBytes == 2
MaxBuf == 1

(* ------------------------- program constants --------------------------- *)
\* next_timeout = 5   (route.py:142, 194)
Ceiling == 5
\* pyotp.TOTP default digits: the OTP is a 6-digit decimal string
OtpModulus == 1000000

Min(a, b) == IF a <= b THEN a ELSE b
Max(a, b) == IF a >= b THEN a ELSE b

(* ------------------------------ config --------------------------------- *)
\* Server.__init__ / Client.__init__ arguments, as load_config supplies them
Config(interval, extend, base_port, port_range, secret, offsets, protocol) ==
  [interval |-> interval, extend |-> extend, base_port |-> base_port,
   port_range |-> port_range, secret |-> secret, offsets |-> offsets,
   protocol |-> protocol]

Secrets == {"S3K3TPI5MYA2M67V", "JBSWY3DPEHPK3PXP"}
Protocols == {"tcp", "udp"}

\* the end-to-end scenario of the documentation: one offset, 30 s windows
ScenarioConfigs ==
  { Config(30, 15, 3000, 1000, s, <<0>>, p) : s \in Secrets, p \in Protocols }

\* the default offsets (-extend, 0, +extend), windows scaled down to 4 s
SmallConfigs ==
  { Config(4, 2, 3000, 1000, s, <<-2, 0, 2>>, p) : s \in Secrets, p \in Protocols }

\* one offset, 4 s windows: the server under traffic
ServeConfigs ==
  { Config(4, 2, 3000, 1000, "S3K3TPI5MYA2M67V", <<0>>, p) : p \in Protocols }

\* offsets beyond the extension: the configuration file takes any integers
WideConfigs ==
  { Config(4, 1, 3000, 1000, s, o, p) :
      s \in Secrets, o \in {<<-3>>, <<2>>}, p \in Protocols }

Configs == ScenarioConfigs \cup SmallConfigs \cup ServeConfigs \cup WideConfigs

\* the configuration file's defaults: offsets [-15, 0, 15], 30 s windows
ClientConfigs ==
  { Config(30, 15, 3000, 1000, s, <<-15, 0, 15>>, p) : s \in Secrets, p \in Protocols }

AllOffsets ==
  UNION { { c.offsets[k] : k \in 1..Len(c.offsets) } : c \in Configs \cup ClientConfigs }

VARIABLES
  cfg,           \* the configuration the role object was constructed with
  clock,         \* time.time(), in seconds
  pc,            \* position of the server loop
  i,             \* index into self.offsets of the for loop
  now,           \* the loop's local `now`
  next_timeout,  \* the loop's local `next_timeout`
  win,           \* the loop's locals (port, valid_start, valid_end)
  wait_start,    \* the time at which sleep/select was called
  sockets,       \* self.sockets: offset -> (sock, valid_start, valid_end, port)
  socks,         \* the socket objects: id -> [state, port]
  sel,           \* the selector's keys: records [fileobj, data]
  backlog,       \* per socket: inbound connections / datagrams not yet read
  events,        \* the keys select() returned that are still to be handled
  threads,       \* the handler threads started by the loop
  faulted,       \* "no", "fault" once an accept, a recvfrom or a handler has
                 \* failed, "served" once a handler was started after that
  bind_failed,   \* offsets whose latest pass through the for loop ended in the
                 \* `except` of the socket creation
  created,       \* per offset: sockets created so far (counted up to ChurnCap)
  \* --- port derivation, taken alone
  t_eval,        \* an evaluation time (now + offset)
  derived,       \* the ports derived for t_eval: [client, server]
  aligned,       \* window starts computed from t_eval: [arg, window_start, calls]
  \* --- the client role
  listening,     \* the server ports a connect / datagram exchange reaches
  local,         \* the client's handler of one local connection or datagram
  served,        \* local connections / datagrams the client loop has dispatched
  \* --- one TCP forwarding session
  peer,          \* the two remote endpoints: "open", "shut_wr" or "closed"
  inbuf,         \* bytes sent by each endpoint that the relay has not read
  fwd,           \* the two copy threads of bidirectional_forward_tcp
  session        \* the session handler and its two sockets

loopvars == <<pc, i, now, next_timeout, win, wait_start>>
\* what the run has done so far, recorded for the properties
history == <<bind_failed, created>>
\* the state of the server role
server == <<pc, i, now, next_timeout, win, wait_start, sockets, socks,
            sel, backlog, events, threads, faulted, history>>
portvars == <<t_eval, derived, aligned>>
clientvars == <<listening, local, served>>
sessionvars == <<peer, inbuf, fwd, session>>
\* what the server role does not touch
aux == <<portvars, clientvars, sessionvars>>
vars == <<cfg, clock, server, aux>>

(* ------------------------------ TOTP ----------------------------------- *)
\* The HMAC-SHA1 dynamic truncation of pyotp's generate_otp, abstracted to a
\* fixed function of (secret, counter).  Under the first secret consecutive
\* counters give different ports; under the second, counters 2k and 2k+1
\* give the same code, so that two consecutive windows map to one port (a
\* collision, which a real secret gives with probability 1/port_range).
generate_otp(secret, counter) ==
  IF secret = "S3K3TPI5MYA2M67V"
    THEN (counter * 7919 + 3301) % OtpModulus
    ELSE ((counter \div 2) * 104729 + 577) % OtpModulus

\* pyotp timecode: int(timestamp / interval), a truncation towards zero
timecode(interval, for_time) ==
  IF for_time >= 0 THEN for_time \div interval ELSE -((-for_time) \div interval)

\* totp.at(for_time) followed by int(otp)
at(secret, interval, for_time) == generate_otp(secret, timecode(interval, for_time))

(* ------------------------ Server.get_window_params --------------------- *)
\* a window start that truncates towards zero, as int(t / interval) does
WindowStartTruncated(c, t) == timecode(c.interval, t) * c.interval

\* window_start = (int(t) // self.interval) * self.interval
WindowStart(c, t) == (t \div c.interval) * c.interval

\* a port taken from the OTP without the reduction modulo port_range
DerivePortUnreduced(c, window_start) ==
  c.base_port + at(c.secret, c.interval, window_start)

DerivePort(c, window_start) ==
  c.base_port + (at(c.secret, c.interval, window_start) % c.port_range)

\* a validity that forgets the extension after the window's end
get_window_params_short(c, t_read, offset) ==
  LET window_start == WindowStart(c, t_read + offset)
  IN  [port        |-> DerivePort(c, window_start),
       valid_start |-> window_start - c.extend,
       valid_end   |-> window_start + c.interval]

\* t_read is the value time.time() returns inside get_window_params
get_window_params(c, t_read, offset) ==
  LET t            == t_read + offset
      window_start == WindowStart(c, t)
  IN  [port        |-> DerivePort(c, window_start),
       valid_start |-> window_start - c.extend,
       valid_end   |-> window_start + c.interval + c.extend]

(* ---------------------------- the registry ----------------------------- *)
NoInfo == [sock |-> 0, valid_start |-> 0, valid_end |-> 0, port |-> 0]
NoWin  == [port |-> 0, valid_start |-> 0, valid_end |-> 0]
FreeSock == [state |-> "free", port |-> 0]

SockIds == 1..MaxSockets
ThreadIds == 1..MaxThreads
\* a handler thread: its position, the arguments it was started with (the
\* server socket it holds, the peer address, the listening port) and its own
\* sockets (conn, target) and what it sent back on the server socket
IdleThread == [pc |-> "idle", sock |-> 0, addr |-> "", port |-> 0,
               response |-> "", sent |-> <<>>, conn |-> "none",
               target |-> "none"]
Peers == {"peerA", "peerB"}
Replies == {"R1", "R2"}
HasInfo(offset) == sockets[offset].sock # 0
Offsets == { cfg.offsets[k] : k \in 1..Len(cfg.offsets) }
LoopOffset == cfg.offsets[i]

\* a fresh socket object: ids of objects that no longer exist are reused
FreeIds == { s \in SockIds : socks[s].state = "free" }
NewSockId == CHOOSE s \in FreeIds : \A r \in FreeIds : s <= r

\* ports on which this process has an open socket bound
BoundPorts == { socks[s].port : s \in { r \in SockIds : socks[r].state = "open" } }

\* the parts of the state that a specification does not exercise
NoDerived == [client |-> 0, server |-> 0]
\* no window start computed yet
NoAligned == [arg |-> 0, window_start |-> 0, calls |-> 0, before |-> 0]
\* the client's handler thread: its position, the loop index, the connection
\* attempts made so far, server_conn (0 is None), the local connection, whether
\* forwarding was started, datagrams relayed to a reachable server port and
\* replies sent back to the local sender, and whether an earlier handler had
\* given up
IdleLocal == [pc |-> "idle", i |-> 1, attempts |-> <<>>, server_conn |-> 0,
              local_conn |-> "none", forwarded |-> FALSE, relayed |-> 0,
              replies |-> 0, after_drop |-> FALSE]
Ends == {"inbound", "target"}
Other(e) == IF e = "inbound" THEN "target" ELSE "inbound"
\* the handler of one accepted connection: its position, client_conn and
\* target_conn, the directions it has shut down for writing (fin[e]: the
\* socket to endpoint e) and the bytes delivered to each endpoint
IdleSession == [pc |-> "idle", conn |-> "none", target |-> "none",
                fin |-> [e \in Ends |-> FALSE], out |-> [e \in Ends |-> 0]]
InitPortVars == t_eval = 0 /\ derived = NoDerived /\ aligned = NoAligned
InitClientVars == listening = {} /\ local = IdleLocal /\ served = 0
InitSessionVars ==
  /\ peer = [e \in Ends |-> [state |-> "open", left |-> 0]]
  /\ inbuf = [e \in Ends |-> 0]
  /\ fwd = [e \in Ends |-> "idle"]
  /\ session = IdleSession
InitAux == InitPortVars /\ InitClientVars /\ InitSessionVars

StartTime(c) == 2 * c.interval - c.extend
\* the run covers Windows window boundaries; under traffic it covers the
\* first boundary, where the listening socket is replaced
Boundaries(c) == IF c \in ServeConfigs THEN 1 ELSE Windows
EndTime(c)   == StartTime(c) + Boundaries(c) * c.interval + 1

\* the server role before run() is called
InitServer ==
  /\ pc = "top"
  /\ i = 1
  /\ now = StartTime(cfg)
  /\ next_timeout = Ceiling
  /\ win = NoWin
  /\ wait_start = StartTime(cfg)
  /\ sockets = [o \in AllOffsets |-> NoInfo]
  /\ socks = [s \in SockIds |-> FreeSock]
  /\ sel = {}
  /\ backlog = [s \in SockIds |-> 0]
  /\ events = {}
  /\ threads = [t \in ThreadIds |-> IdleThread]
  /\ faulted = "no"
  /\ bind_failed = {}
  /\ created = [o \in AllOffsets |-> 0]

Init ==
  /\ cfg \in Configs
  /\ clock = StartTime(cfg)
  /\ InitServer
  /\ InitAux

(* ------------------- Server.run_tcp / Server.run_udp ------------------- *)
\* now = time.time(); next_timeout = 5; for offset in self.offsets:
LoopTop ==
  /\ pc = "top"
  /\ now' = clock
  /\ next_timeout' = Ceiling
  /\ i' = 1
  /\ pc' = IF Len(cfg.offsets) = 0 THEN "wait" ELSE "retire"
  /\ UNCHANGED aux
  /\ UNCHANGED history
  /\ UNCHANGED <<cfg, clock, win, wait_start, sockets, socks, sel, backlog,
                 events, threads, faulted>>

\* a retirement test that looks at the expiry only
MustRetireOnExpiry(info, w, tnow) == tnow >= info.valid_end

\* the retirement test of the tick: `now >= old_valid_end or port != old_port`
MustRetire(info, w, tnow) == tnow >= info.valid_end \/ w.port # info.port

\* sock.close(): the object stays (closed) while a handler thread holds it
Running(t) == threads[t].pc \notin {"idle", "done"}
Referenced(s) == \E t \in ThreadIds : Running(t) /\ threads[t].sock = s
Closed(s) == IF Referenced(s) THEN [state |-> "closed", port |-> 0] ELSE FreeSock

\* a close of the listening socket that also resets the connections that
\* were accepted on it
AcceptedCutByClose(s) ==
  [t \in ThreadIds |->
     IF threads[t].conn = "open" /\ threads[t].port = socks[s].port
       THEN [threads[t] EXCEPT !.pc = "done", !.conn = "closed",
                               !.target = IF @ = "open" THEN "closed" ELSE @]
       ELSE threads[t]]

\* sock.close() on a listening socket: the handler threads and the
\* connections accepted on it are separate objects, which it leaves alone
AcceptedAfterClose(s) == threads

\* port, valid_start, valid_end = self.get_window_params(offset);
\* info = self.sockets.get(offset); if info: ... close the old socket
Retire ==
  /\ pc = "retire"
  /\ LET o == LoopOffset
         w == get_window_params(cfg, clock, o)
         info == sockets[o]
     IN /\ win' = w
        /\ IF HasInfo(o) /\ MustRetire(info, w, now)
             THEN /\ sel' = { k \in sel : k.fileobj # info.sock }
                  /\ socks' = [socks EXCEPT ![info.sock] = Closed(info.sock)]
                  /\ backlog' = [backlog EXCEPT ![info.sock] = 0]
                  /\ sockets' = [sockets EXCEPT ![o] = NoInfo]
                  /\ threads' = AcceptedAfterClose(info.sock)
             ELSE UNCHANGED <<sel, socks, backlog, sockets, threads>>
  /\ pc' = "create"
  /\ UNCHANGED aux
  /\ UNCHANGED history
  /\ UNCHANGED <<cfg, clock, i, now, next_timeout, wait_start, events, faulted>>

\* create_tcp_socket / create_udp_socket: whether bind() can succeed.  A TCP
\* bind fails when this process already listens on the port; any bind may
\* fail for reasons outside the process (port taken, permission denied).
CanBind(port) == cfg.protocol = "udp" \/ port \notin BoundPorts

NextPc == IF i = Len(cfg.offsets) THEN "wait" ELSE "retire"

\* the record stored for a new socket: (s, valid_start, valid_end, port)
NewRecord(s, w) ==
  [sock |-> s, valid_start |-> w.valid_start, valid_end |-> w.valid_end,
   port |-> w.port]

\* a tick that creates a socket although the offset still has its record
NeedsSocketAlways(o) == TRUE

\* `if not info:` (after the retirement branch has reset info to None)
NeedsSocket(o) == ~HasInfo(o)

\* an exception of the socket creation that leaves run()
AfterBindErrorEscapes == "crashed"

\* except Exception as e: print(...): the for loop goes on
AfterBindError == NextPc

\* sockets created for an offset are counted up to this number
ChurnCap == Windows + 3

\* if not info: if now >= valid_start: create, register, store
\*               else: next_timeout = min(next_timeout, valid_start - now)
\* outcomes: whether a bind can succeed as far as other processes go
CreateWith(outcomes) ==
  /\ pc = "create"
  /\ LET o == LoopOffset IN
     IF ~NeedsSocket(o)
       THEN /\ pc' = NextPc
            /\ bind_failed' = bind_failed \ {o}
            /\ UNCHANGED <<sockets, socks, sel, next_timeout, created>>
       ELSE IF now >= win.valid_start
         THEN \E ok \in outcomes :
                IF ok /\ CanBind(win.port) /\ FreeIds # {}
                  THEN LET s == NewSockId IN
                       /\ socks' = [socks EXCEPT ![s] = [state |-> "open", port |-> win.port]]
                       /\ sel' = sel \cup {[fileobj |-> s, data |-> o]}
                       /\ sockets' = [sockets EXCEPT ![o] = NewRecord(s, win)]
                       /\ pc' = NextPc
                       /\ bind_failed' = bind_failed \ {o}
                       /\ created' = [created EXCEPT ![o] = Min(@ + 1, ChurnCap)]
                       /\ UNCHANGED next_timeout
                  ELSE /\ pc' = AfterBindError
                       /\ bind_failed' = bind_failed \cup {o}
                       /\ UNCHANGED <<sockets, socks, sel, next_timeout, created>>
         ELSE /\ next_timeout' = Min(next_timeout, win.valid_start - now)
              /\ pc' = NextPc
              /\ bind_failed' = bind_failed \ {o}
              /\ UNCHANGED <<sockets, socks, sel, created>>
  /\ i' = IF i = Len(cfg.offsets) THEN i ELSE i + 1
  /\ UNCHANGED aux
  /\ UNCHANGED <<cfg, clock, now, win, wait_start, backlog, events, threads,
                 faulted>>

\* any bind may fail: the port is taken by another process, or not permitted
Create == CreateWith(BOOLEAN)

\* no other process holds a port: a bind fails only against this process
CreateAlone == CreateWith({TRUE})

Records == { sockets[o] : o \in { x \in AllOffsets : HasInfo(x) } }

\* a timeout that leaves the records' expiries out
MinExpiryIgnored(recs, tnow, acc) == acc

RECURSIVE MinExpiry(_, _, _)
\* for offset, (...) in self.sockets.items():
\*     next_timeout = min(next_timeout, valid_end - now)
MinExpiry(recs, tnow, acc) ==
  IF recs = {} THEN acc
  ELSE LET r == CHOOSE x \in recs : TRUE
       IN MinExpiry(recs \ {r}, tnow, Min(acc, r.valid_end - tnow))

\* the timeout computed after the for loop; then sleep (tcp, no sockets) or select
Wait ==
  /\ pc = "wait"
  /\ LET nt == MinExpiry(Records, now, next_timeout) IN
     /\ next_timeout' = nt
     /\ pc' = IF cfg.protocol = "tcp" /\ Records = {}
                THEN (IF nt < 0 THEN "crashed" ELSE "sleep")
                ELSE "select"
  /\ wait_start' = clock
  /\ UNCHANGED aux
  /\ UNCHANGED history
  /\ UNCHANGED <<cfg, clock, i, now, win, sockets, socks, sel, backlog, events,
                 threads, faulted>>

Deadline == wait_start + Max(next_timeout, 0)

\* time.sleep(next_timeout) returns; continue
SleepReturn ==
  /\ pc = "sleep"
  /\ clock >= Deadline
  /\ pc' = "top"
  /\ UNCHANGED aux
  /\ UNCHANGED history
  /\ UNCHANGED <<cfg, clock, i, now, next_timeout, win, wait_start, sockets,
                 socks, sel, backlog, events, threads, faulted>>

Ready == { k \in sel : backlog[k.fileobj] > 0 }

\* events = sel.select(timeout=next_timeout)
SelectReturn ==
  /\ pc = "select"
  /\ Ready # {} \/ clock >= Deadline
  /\ events' = Ready
  /\ pc' = IF Ready = {} THEN "top" ELSE "events"
  /\ UNCHANGED aux
  /\ UNCHANGED history
  /\ UNCHANGED <<cfg, clock, i, now, next_timeout, win, wait_start, sockets,
                 socks, sel, backlog, threads, faulted>>

\* KeyboardInterrupt delivered to the main thread while run() executes:
\* app.py prints and calls sys.exit(0); route.py and server.py do not catch it
Shutdown ==
  /\ pc \notin {"crashed", "exited"}
  /\ pc' = "exited"
  /\ UNCHANGED aux
  /\ UNCHANGED history
  /\ UNCHANGED <<cfg, clock, i, now, next_timeout, win, wait_start, sockets,
                 socks, sel, backlog, events, threads, faulted>>

\* the wall clock moves on
Advance ==
  /\ clock < EndTime(cfg)
  /\ \/ pc \in {"retire", "create", "wait", "events"} /\ clock < now + MaxLag
     \/ pc \in {"sleep", "select"} /\ clock < Deadline + MaxLag
  /\ clock' = clock + 1
  /\ UNCHANGED aux
  /\ UNCHANGED history
  /\ UNCHANGED <<cfg, pc, i, now, next_timeout, win, wait_start, sockets,
                 socks, sel, backlog, events, threads, faulted>>

NextLoop ==
  \/ LoopTop
  \/ Retire
  \/ Create
  \/ Wait
  \/ SleepReturn
  \/ SelectReturn
  \/ Shutdown
  \/ Advance

Spec == Init /\ [][NextLoop]_vars

\* the loop on a host where no other process holds any of the ports
NextAlone ==
  \/ LoopTop
  \/ Retire
  \/ CreateAlone
  \/ Wait
  \/ SleepReturn
  \/ SelectReturn
  \/ Shutdown
  \/ Advance

SpecAlone == Init /\ [][NextAlone]_vars

\* the server started with the configuration file's defaults, on such a host
InitDefaults ==
  /\ cfg \in ClientConfigs
  /\ clock = StartTime(cfg)
  /\ InitServer
  /\ InitAux

SpecDefaults == InitDefaults /\ [][NextAlone]_vars

(* --------------------- the loop's event handling ----------------------- *)
\* thread slots not occupied by a running handler
FreeSlots == { t \in ThreadIds : ~Running(t) }
NewThread == CHOOSE t \in FreeSlots : \A u \in FreeSlots : t <= u
Pending == { s \in SockIds : backlog[s] > 0 }

\* a peer connects to, or sends a datagram to, a port the server has open
Arrive(s) ==
  /\ pc \notin {"crashed", "exited"}
  /\ socks[s].state = "open"
  /\ backlog[s] = 0
  /\ Cardinality(Pending) < Cardinality(FreeSlots)
  /\ backlog' = [backlog EXCEPT ![s] = 1]
  /\ UNCHANGED aux
  /\ UNCHANGED history
  /\ UNCHANGED <<cfg, clock, pc, i, now, next_timeout, win, wait_start, sockets,
                 socks, sel, events, threads, faulted>>

\* for key, mask in events: ... the loop goes back to `while True` at the end
EventsDone(k) ==
  /\ events' = events \ {k}
  /\ pc' = IF events \ {k} = {} THEN "top" ELSE "events"

\* an accept() or recvfrom() that raises, handled by letting it escape
EventErrorEscapes(k) ==
  /\ events' = events \ {k}
  /\ pc' = "crashed"

\* except Exception as e: print(...): the for loop over events goes on
EventErrorCaught(k) == EventsDone(k)

\* the failure record after a handler has been started
Dispatched == IF faulted = "no" THEN "no" ELSE "served"
\* the failure record after a failure
Faulted == IF faulted = "served" THEN "served" ELSE "fault"

\* client_conn, addr = s.accept(); threading.Thread(handle_tcp_connection).start()
AcceptOk(k) ==
  /\ pc = "events" /\ k \in events /\ cfg.protocol = "tcp"
  /\ threads' = [threads EXCEPT ![NewThread] =
                     [IdleThread EXCEPT !.pc = "start", !.conn = "open",
                                        !.port = socks[k.fileobj].port]]
  /\ faulted' = Dispatched
  /\ backlog' = [backlog EXCEPT ![k.fileobj] = 0]
  /\ EventsDone(k)
  /\ UNCHANGED aux
  /\ UNCHANGED history
  /\ UNCHANGED <<cfg, clock, i, now, next_timeout, win, wait_start, sockets,
                 socks, sel>>

\* s.accept() raises (the peer has gone, no descriptors left)
AcceptError(k) ==
  /\ pc = "events" /\ k \in events /\ cfg.protocol = "tcp"
  /\ backlog' = [backlog EXCEPT ![k.fileobj] = 0]
  /\ faulted' = Faulted
  /\ EventErrorCaught(k)
  /\ UNCHANGED aux
  /\ UNCHANGED history
  /\ UNCHANGED <<cfg, clock, i, now, next_timeout, win, wait_start, sockets,
                 socks, sel, threads>>

\* data, addr = s.recvfrom(4096); if data: Thread(handle_udp_packet).start()
RecvOk(k) ==
  /\ pc = "events" /\ k \in events /\ cfg.protocol = "udp"
  /\ \E a \in Peers :
       threads' = [threads EXCEPT ![NewThread] =
                     [IdleThread EXCEPT !.pc = "sendto", !.sock = k.fileobj,
                                        !.addr = a,
                                        !.port = socks[k.fileobj].port]]
  /\ faulted' = Dispatched
  /\ backlog' = [backlog EXCEPT ![k.fileobj] = 0]
  /\ EventsDone(k)
  /\ UNCHANGED aux
  /\ UNCHANGED history
  /\ UNCHANGED <<cfg, clock, i, now, next_timeout, win, wait_start, sockets,
                 socks, sel>>

\* an empty datagram: `if data:` is false, no handler is started
RecvEmpty(k) ==
  /\ pc = "events" /\ k \in events /\ cfg.protocol = "udp"
  /\ backlog' = [backlog EXCEPT ![k.fileobj] = 0]
  /\ EventsDone(k)
  /\ UNCHANGED aux
  /\ UNCHANGED history
  /\ UNCHANGED <<cfg, clock, i, now, next_timeout, win, wait_start, sockets,
                 socks, sel, threads, faulted>>

\* s.recvfrom() raises
RecvError(k) ==
  /\ pc = "events" /\ k \in events /\ cfg.protocol = "udp"
  /\ backlog' = [backlog EXCEPT ![k.fileobj] = 0]
  /\ faulted' = Faulted
  /\ EventErrorCaught(k)
  /\ UNCHANGED aux
  /\ UNCHANGED history
  /\ UNCHANGED <<cfg, clock, i, now, next_timeout, win, wait_start, sockets,
                 socks, sel, threads>>

(* ------------------------ the handler threads -------------------------- *)
\* the socket objects once thread t has dropped its references
Release(t) ==
  [s \in SockIds |->
     IF socks[s].state = "closed" /\ threads[t].sock = s
        /\ ~\E u \in ThreadIds \ {t} : Running(u) /\ threads[u].sock = s
       THEN FreeSock ELSE socks[s]]

\* Server.handle_tcp_connection: print(... client_conn.getpeername() ...)
TcpStart(t) ==
  /\ threads[t].pc = "start"
  /\ threads' = [threads EXCEPT ![t].pc = "connect"]
  /\ UNCHANGED aux
  /\ UNCHANGED history
  /\ UNCHANGED <<cfg, clock, pc, i, now, next_timeout, win, wait_start, sockets,
                 socks, sel, backlog, events, faulted>>

\* getpeername() raises (the peer has already reset): the thread dies with
\* the exception, before the try, and client_conn is not closed
TcpPeernameError(t) ==
  /\ threads[t].pc = "start"
  /\ threads' = [threads EXCEPT ![t].pc = "done", ![t].port = 0]
  /\ faulted' = Faulted
  /\ UNCHANGED aux
  /\ UNCHANGED history
  /\ UNCHANGED <<cfg, clock, pc, i, now, next_timeout, win, wait_start, sockets,
                 socks, sel, backlog, events>>

\* target_conn = socket.create_connection((target_host, target_port))
TcpConnect(t) ==
  /\ threads[t].pc = "connect"
  /\ threads' = [threads EXCEPT ![t].pc = "forward", ![t].target = "open"]
  /\ UNCHANGED aux
  /\ UNCHANGED history
  /\ UNCHANGED <<cfg, clock, pc, i, now, next_timeout, win, wait_start, sockets,
                 socks, sel, backlog, events, faulted>>

\* except Exception: print; client_conn.close(); return
TcpConnectError(t) ==
  /\ threads[t].pc = "connect"
  /\ threads' = [threads EXCEPT ![t].pc = "done", ![t].port = 0, ![t].conn = "closed"]
  /\ faulted' = Faulted
  /\ UNCHANGED aux
  /\ UNCHANGED history
  /\ UNCHANGED <<cfg, clock, pc, i, now, next_timeout, win, wait_start, sockets,
                 socks, sel, backlog, events>>

\* bidirectional_forward_tcp returns (both copy threads joined, whether they
\* met end-of-stream or an I/O error); client_conn.close(); target_conn.close()
TcpForwardDone(t) ==
  /\ threads[t].pc = "forward"
  /\ \E err \in BOOLEAN :
       /\ threads' = [threads EXCEPT ![t].pc = "done", ![t].port = 0, ![t].conn = "closed",
                                     ![t].target = "closed"]
       /\ faulted' = IF err THEN Faulted ELSE faulted
  /\ UNCHANGED aux
  /\ UNCHANGED history
  /\ UNCHANGED <<cfg, clock, pc, i, now, next_timeout, win, wait_start, sockets,
                 socks, sel, backlog, events>>

\* Server.handle_udp_packet: target_sock.sendto(data, target)
UdpSend(t) ==
  /\ threads[t].pc = "sendto"
  /\ threads' = [threads EXCEPT ![t].pc = "recvfrom", ![t].target = "open"]
  /\ UNCHANGED aux
  /\ UNCHANGED history
  /\ UNCHANGED <<cfg, clock, pc, i, now, next_timeout, win, wait_start, sockets,
                 socks, sel, backlog, events, faulted>>

\* socket() or sendto() raises: except Exception: print
UdpSendError(t) ==
  /\ threads[t].pc = "sendto"
  /\ threads' = [threads EXCEPT ![t].pc = "done", ![t].port = 0, ![t].sock = 0]
  /\ socks' = Release(t)
  /\ faulted' = Faulted
  /\ UNCHANGED aux
  /\ UNCHANGED history
  /\ UNCHANGED <<cfg, clock, pc, i, now, next_timeout, win, wait_start, sockets,
                 sel, backlog, events>>

\* response, _ = target_sock.recvfrom(4096): the target's reply arrives
UdpRecv(t) ==
  /\ threads[t].pc = "recvfrom"
  /\ \E r \in Replies :
       threads' = [threads EXCEPT ![t].pc = "reply", ![t].response = r]
  /\ UNCHANGED aux
  /\ UNCHANGED history
  /\ UNCHANGED <<cfg, clock, pc, i, now, next_timeout, win, wait_start, sockets,
                 socks, sel, backlog, events, faulted>>

\* settimeout(5) expires: socket.timeout is caught, nothing is sent back
UdpTimeout(t) ==
  /\ threads[t].pc = "recvfrom"
  /\ threads' = [threads EXCEPT ![t].pc = "done", ![t].port = 0, ![t].sock = 0,
                                ![t].target = "closed"]
  /\ socks' = Release(t)
  /\ faulted' = Faulted
  /\ UNCHANGED aux
  /\ UNCHANGED history
  /\ UNCHANGED <<cfg, clock, pc, i, now, next_timeout, win, wait_start, sockets,
                 sel, backlog, events>>

\* the datagram of sock.sendto(response, client_addr)
ReplyDatagram(t) == [to |-> threads[t].addr, payload |-> threads[t].response]

\* sock.sendto(response, client_addr) on the server socket the datagram came
\* in on; it raises when the loop has closed that socket in the meantime
UdpReply(t) ==
  /\ threads[t].pc = "reply"
  /\ IF socks[threads[t].sock].state = "open"
       THEN /\ threads' = [threads EXCEPT ![t].pc = "done", ![t].port = 0, ![t].sock = 0,
                                          ![t].target = "closed",
                                          ![t].sent = <<ReplyDatagram(t)>>]
            /\ UNCHANGED faulted
       ELSE /\ threads' = [threads EXCEPT ![t].pc = "done", ![t].port = 0, ![t].sock = 0,
                                          ![t].target = "closed"]
            /\ faulted' = Faulted
  /\ socks' = Release(t)
  /\ UNCHANGED aux
  /\ UNCHANGED history
  /\ UNCHANGED <<cfg, clock, pc, i, now, next_timeout, win, wait_start, sockets,
                 sel, backlog, events>>

Handler(t) ==
  \/ TcpStart(t)
  \/ TcpPeernameError(t)
  \/ TcpConnect(t)
  \/ TcpConnectError(t)
  \/ TcpForwardDone(t)
  \/ UdpSend(t)
  \/ UdpSendError(t)
  \/ UdpRecv(t)
  \/ UdpTimeout(t)
  \/ UdpReply(t)

LoopStep ==
  \/ LoopTop
  \/ Retire
  \/ Create
  \/ Wait
  \/ SleepReturn
  \/ SelectReturn

NextServe ==
  \/ LoopStep
  \/ Advance
  \/ \E s \in SockIds : Arrive(s)
  \/ \E k \in events : AcceptOk(k)
  \/ \E k \in events : AcceptError(k)
  \/ \E k \in events : RecvOk(k)
  \/ \E k \in events : RecvEmpty(k)
  \/ \E k \in events : RecvError(k)
  \/ \E t \in ThreadIds : Handler(t)

InitServe == Init /\ cfg \in ServeConfigs

\* the server with peers connecting and handler threads running
SpecServe == InitServe /\ [][NextServe]_vars

(* ------------------- port derivation, client and server ---------------- *)
\* a client that rounds the time to the nearest window edge
get_totp_port_rounded(c, t) ==
  c.base_port + (at(c.secret, c.interval, t + c.interval \div 2) % c.port_range)

\* Client.get_totp_port(t) (and client.py's get_totp_port): totp.at(t)
get_totp_port(c, t) ==
  c.base_port + (at(c.secret, c.interval, t) % c.port_range)

EvalTimes == 0..MaxEval

InitPort ==
  /\ cfg \in Configs
  /\ clock = StartTime(cfg)
  /\ InitServer
  /\ InitClientVars
  /\ InitSessionVars
  /\ t_eval \in EvalTimes
  /\ derived = NoDerived
  /\ aligned = NoAligned

\* the client computes the port for target_time = t_eval
ClientDerive ==
  /\ derived.client = 0
  /\ derived' = [derived EXCEPT !.client = get_totp_port(cfg, t_eval)]
  /\ UNCHANGED <<cfg, clock, server, clientvars, sessionvars, t_eval, aligned>>

\* the server computes the window of an offset whose t = now + offset is t_eval
ServerDerive ==
  /\ derived.server = 0
  /\ \E o \in Offsets :
       derived' = [derived EXCEPT !.server = get_window_params(cfg, t_eval - o, o).port]
  /\ UNCHANGED <<cfg, clock, server, clientvars, sessionvars, t_eval, aligned>>

\* a later call of get_window_params, at another time of the same window
\* (and for any offset): port, _, _ = self.get_window_params(offset)
ServerDeriveAgain ==
  /\ derived.server # 0
  /\ \E t \in EvalTimes, o \in Offsets :
       /\ t # t_eval
       /\ WindowStart(cfg, t) = WindowStart(cfg, t_eval)
       /\ t_eval' = t
       /\ derived' = [client |-> 0,
                      server |-> get_window_params(cfg, t - o, o).port]
  /\ UNCHANGED <<cfg, clock, server, clientvars, sessionvars, aligned>>

NextPort == ClientDerive \/ ServerDerive \/ ServerDeriveAgain

\* the two port derivations applied to one evaluation time
SpecPort == InitPort /\ [][NextPort]_vars

\* C4: for one configuration and one evaluation time t, the port the client
\* derives with the OTP evaluated at t itself equals the port the server
\* derives with the OTP evaluated at the left edge of t's window.
C4_PortAgreement ==
  (derived.client # 0 /\ derived.server # 0) => derived.client = derived.server

\* both sides have derived a port for a time strictly inside a window
C4_Witness ==
  /\ derived.client # 0
  /\ derived.server # 0
  /\ t_eval % cfg.interval # 0
  /\ t_eval > cfg.interval

InRange(port) ==
  cfg.base_port <= port /\ port < cfg.base_port + cfg.port_range

DerivedInRange ==
  /\ derived.client # 0 => InRange(derived.client)
  /\ derived.server # 0 => InRange(derived.server)

\* two derivations for times of one window give one port
SameWindowSamePort ==
  (/\ derived.server # 0 /\ derived'.server # 0
   /\ WindowStart(cfg, t_eval') = WindowStart(cfg, t_eval))
     => derived'.server = derived.server

\* C12: for a fixed configuration with port_range > 0, derivations for the
\* same window_start always yield the same port, and every port derived by
\* get_window_params or by get_totp_port lies in
\* [base_port, base_port + port_range).
C12_PortDeterministicInRange == [](DerivedInRange) /\ [][SameWindowSamePort]_vars

\* client and server have derived the port for the last second of a window
C12_Witness ==
  /\ derived.client # 0
  /\ derived.server # 0
  /\ cfg.port_range > 0
  /\ t_eval % cfg.interval = cfg.interval - 1
  /\ t_eval > 2 * cfg.interval

(* ------------------- window alignment, taken alone --------------------- *)
\* integer evaluation times t = now + offset on both sides of zero
SignedTimes == -MaxEval..MaxEval

InitWindow ==
  /\ cfg \in Configs
  /\ clock = StartTime(cfg)
  /\ InitServer
  /\ InitClientVars
  /\ InitSessionVars
  /\ t_eval \in SignedTimes
  /\ derived = NoDerived
  /\ aligned = NoAligned

\* window_start = (int(t) // self.interval) * self.interval, for t = t_eval
AlignTime ==
  /\ aligned.calls = 0
  /\ aligned' = [aligned EXCEPT !.arg = t_eval,
                                 !.window_start = WindowStart(cfg, t_eval),
                                 !.calls = 1]
  /\ UNCHANGED <<cfg, clock, server, clientvars, sessionvars, t_eval, derived>>

\* the same computation applied to the window start it returned
AlignAgain ==
  /\ aligned.calls = 1
  /\ aligned' = [aligned EXCEPT !.arg = aligned.window_start,
                                 !.window_start = WindowStart(cfg, aligned.window_start),
                                 !.calls = 2]
  /\ UNCHANGED <<cfg, clock, server, clientvars, sessionvars, t_eval, derived>>

\* the evaluation time reaches the right edge of the window just computed
ReachEdge ==
  /\ aligned.calls >= 1
  /\ aligned.before = 0
  /\ t_eval + cfg.interval <= MaxEval
  /\ t_eval' = aligned.window_start + cfg.interval
  /\ aligned' = [NoAligned EXCEPT !.before = 1, !.arg = aligned.window_start]
  /\ UNCHANGED <<cfg, clock, server, clientvars, sessionvars, derived>>

NextWindow == AlignTime \/ AlignAgain \/ ReachEdge

\* the window computation applied to one evaluation time
SpecWindow == InitWindow /\ [][NextWindow]_vars

\* the window start computed for t_eval is a multiple of interval and
\* window_start <= t_eval < window_start + interval
WindowContains ==
  aligned.calls >= 1 =>
    LET ws == WindowStart(cfg, t_eval) IN
    /\ aligned.window_start = ws
    /\ ws % cfg.interval = 0
    /\ ws <= t_eval
    /\ t_eval < ws + cfg.interval
    /\ \A t \in ws..(ws + cfg.interval - 1) : WindowStart(cfg, t) = ws

\* computing the window start of a window start returns it
WindowIdempotent ==
  aligned.calls = 2 => aligned.window_start = aligned.arg

\* t = window_start + interval is in the next window
EdgeInNextWindow ==
  (ReachEdge /\ aligned.calls >= 1) =>
     WindowStart(cfg, t_eval') = aligned.window_start + cfg.interval

\* C13: for every integer evaluation time t, negative times included,
\* window_start(t) is a multiple of interval with window_start(t) <= t <
\* window_start(t) + interval; window_start is idempotent; all t of one
\* interval map to the same window; t = window_start + interval maps to the
\* next window.
C13_WindowAlignment ==
  /\ [](WindowContains /\ WindowIdempotent)
  /\ [][EdgeInNextWindow]_vars

\* the window of a negative time that is not a multiple of interval has been
\* computed twice
C13_Witness ==
  /\ aligned.calls = 2
  /\ t_eval < 0
  /\ t_eval % cfg.interval # 0

(* ----------------------------- the client ------------------------------ *)
ClientEnd(c) == StartTime(c) + ClientSpan

\* the ports a client can derive during a run
CandidatePorts ==
  { get_totp_port(cfg, t + cfg.offsets[k]) :
      t \in StartTime(cfg)..ClientEnd(cfg), k \in 1..Len(cfg.offsets) }

InitClient ==
  /\ cfg \in ClientConfigs
  /\ clock = StartTime(cfg)
  /\ InitServer
  /\ InitPortVars
  /\ InitSessionVars
  /\ listening \in SUBSET CandidatePorts
  /\ local = IdleLocal
  /\ served = 0

Dropped(h) == h.pc = "done" /\ h.server_conn = 0 /\ h.replies = 0

\* Client.run_tcp / run_udp: accept() or recvfrom() on the local socket, then
\* threading.Thread(target=self.handle_..., ...).start()
ClientAccept ==
  /\ local.pc \in {"idle", "done"}
  /\ served < MaxServed
  /\ served' = served + 1
  /\ local' = [IdleLocal EXCEPT !.pc = "try",
                                !.local_conn = IF cfg.protocol = "tcp" THEN "open" ELSE "none",
                                !.after_drop = local.after_drop \/ Dropped(local)]
  /\ UNCHANGED <<cfg, clock, server, portvars, sessionvars, listening>>

\* a port computed once, when the local connection arrived
AttemptTimeStale == StartTime(cfg)

\* target_time = time.time() + offset: the clock is read at each attempt
AttemptTime == clock

AttemptPort == get_totp_port(cfg, AttemptTime + cfg.offsets[local.i])

Attempt(ok) == [offset |-> cfg.offsets[local.i], port |-> AttemptPort, ok |-> ok]

\* the for loop after a failed attempt: the next offset, or the loop's end
AfterFailure(h) ==
  IF h.i = Len(cfg.offsets) THEN [h EXCEPT !.pc = "check"] ELSE [h EXCEPT !.i = h.i + 1]

\* Client.handle_tcp_connection, one iteration of `for offset in self.offsets`:
\* socket.create_connection((server_ip, port), timeout=5); break on success
TcpAttempt ==
  /\ cfg.protocol = "tcp"
  /\ local.pc = "try"
  /\ LET ok == AttemptPort \in listening
         h  == [local EXCEPT !.attempts = Append(local.attempts, Attempt(ok))]
     IN local' = IF ok THEN [h EXCEPT !.server_conn = AttemptPort, !.pc = "check"]
                       ELSE AfterFailure(h)
  /\ UNCHANGED <<cfg, clock, server, portvars, sessionvars, listening, served>>

\* a give-up that returns without closing the local connection
GiveUpLeaks(h) == [h EXCEPT !.pc = "done"]

\* if server_conn is None: print; local_conn.close(); return
GiveUp(h) == [h EXCEPT !.pc = "done", !.local_conn = "closed"]

\* after the for loop: give up, or start bidirectional_forward_tcp
TcpCheck ==
  /\ cfg.protocol = "tcp"
  /\ local.pc = "check"
  /\ local' = IF local.server_conn = 0
                THEN GiveUp(local)
                ELSE [local EXCEPT !.pc = "forward", !.forwarded = TRUE]
  /\ UNCHANGED <<cfg, clock, server, portvars, sessionvars, listening, served>>

\* bidirectional_forward_tcp returns; local_conn.close(); server_conn.close()
TcpForwarded ==
  /\ cfg.protocol = "tcp"
  /\ local.pc = "forward"
  /\ local' = [local EXCEPT !.pc = "done", !.local_conn = "closed"]
  /\ UNCHANGED <<cfg, clock, server, portvars, sessionvars, listening, served>>

\* Client.handle_udp_packet, one iteration: sendto the derived port, wait up
\* to 5 s for the reply, send it back to the local sender and return; on a
\* timeout or an error go on with the next offset
UdpAttempt ==
  /\ cfg.protocol = "udp"
  /\ local.pc = "try"
  /\ \E replied \in BOOLEAN :
       /\ replied => AttemptPort \in listening
       /\ LET got == IF AttemptPort \in listening THEN 1 ELSE 0
              h   == [local EXCEPT !.attempts = Append(local.attempts, Attempt(replied)),
                                   !.relayed = local.relayed + got]
          IN local' = IF replied
                        THEN [h EXCEPT !.replies = h.replies + 1, !.pc = "done"]
                        ELSE AfterFailure(h)
  /\ UNCHANGED <<cfg, clock, server, portvars, sessionvars, listening, served>>

\* after the for loop: print("...") and return; nothing is sent back
UdpGiveUp ==
  /\ cfg.protocol = "udp"
  /\ local.pc = "check"
  /\ local' = [local EXCEPT !.pc = "done"]
  /\ UNCHANGED <<cfg, clock, server, portvars, sessionvars, listening, served>>

\* the server hops: other ports become reachable
ServerHop ==
  /\ \E l \in SUBSET CandidatePorts : l # listening /\ listening' = l
  /\ UNCHANGED <<cfg, clock, server, portvars, sessionvars, local, served>>

\* time passes (a refused connect is immediate, a timeout takes 5 s)
ClientAdvance ==
  /\ clock < ClientEnd(cfg)
  /\ clock' = clock + 1
  /\ UNCHANGED <<cfg, server, aux>>

NextClient ==
  \/ ClientAccept
  \/ TcpAttempt
  \/ TcpCheck
  \/ TcpForwarded
  \/ UdpAttempt
  \/ UdpGiveUp
  \/ ServerHop
  \/ ClientAdvance

SpecClient == InitClient /\ [][NextClient]_vars

(* ------------------------ one TCP forwarding session ------------------- *)
\* Server.handle_tcp_connection has been started with an accepted connection
InitSession ==
  /\ cfg \in ServeConfigs
  /\ clock = StartTime(cfg)
  /\ InitServer
  /\ InitPortVars
  /\ InitClientVars
  /\ peer = [e \in Ends |-> [state |-> "open", left |-> MaxBytes]]
  /\ inbuf = [e \in Ends |-> 0]
  /\ fwd = [e \in Ends |-> "idle"]
  /\ session = [IdleSession EXCEPT !.pc = "connect", !.conn = "open"]

\* target_conn = socket.create_connection(...); bidirectional_forward_tcp
\* starts the two copy threads t1 (conn1 -> conn2) and t2 (conn2 -> conn1)
SessionConnect ==
  /\ session.pc = "connect"
  /\ session' = [session EXCEPT !.pc = "forward", !.target = "open"]
  /\ fwd' = [e \in Ends |-> "recv"]
  /\ UNCHANGED <<cfg, clock, server, portvars, clientvars, peer, inbuf>>

\* a failure branch that returns without closing the inbound connection
SessionConnectErrorLeaks ==
  /\ session.pc = "connect"
  /\ session' = [session EXCEPT !.pc = "done"]
  /\ UNCHANGED <<cfg, clock, server, portvars, clientvars, peer, inbuf, fwd>>

\* the connection to the target fails: client_conn.close(); return
SessionConnectError ==
  /\ session.pc = "connect"
  /\ session' = [session EXCEPT !.pc = "done", !.conn = "closed"]
  /\ UNCHANGED <<cfg, clock, server, portvars, clientvars, peer, inbuf, fwd>>

\* forward(src, dst), the thread that reads from endpoint e:
\* data = src.recv(4096) returns bytes
FwdRecvData(e) ==
  /\ fwd[e] = "recv"
  /\ inbuf[e] > 0
  /\ inbuf' = [inbuf EXCEPT ![e] = inbuf[e] - 1]
  /\ fwd' = [fwd EXCEPT ![e] = "send"]
  /\ UNCHANGED <<cfg, clock, server, portvars, clientvars, peer, session>>

\* a copy loop without `if not data: break`
EofSeenNever(e) == FALSE

\* recv returns b"": endpoint e has closed or shut down its writing side and
\* everything it sent has been read
EofSeen(e) == inbuf[e] = 0 /\ peer[e].state \in {"shut_wr", "closed"}

\* if not data: break
FwdRecvEof(e) ==
  /\ fwd[e] = "recv"
  /\ EofSeen(e)
  /\ fwd' = [fwd EXCEPT ![e] = "shutdown"]
  /\ UNCHANGED <<cfg, clock, server, portvars, clientvars, peer, inbuf, session>>

\* recv raises (connection reset by an endpoint that has closed): except: pass
FwdRecvError(e) ==
  /\ fwd[e] = "recv"
  /\ peer[e].state = "closed"
  /\ fwd' = [fwd EXCEPT ![e] = "shutdown"]
  /\ UNCHANGED <<cfg, clock, server, portvars, clientvars, peer, inbuf, session>>

\* dst.sendall(data): delivered to the other endpoint, or raises when that
\* endpoint has closed (broken pipe, reset)
FwdSend(e) ==
  /\ fwd[e] = "send"
  /\ IF peer[Other(e)].state = "closed"
       THEN /\ fwd' = [fwd EXCEPT ![e] = "shutdown"]
            /\ UNCHANGED session
       ELSE /\ fwd' = [fwd EXCEPT ![e] = "recv"]
            /\ session' = [session EXCEPT !.out[Other(e)] = @ + 1]
  /\ UNCHANGED <<cfg, clock, server, portvars, clientvars, peer, inbuf>>

\* finally: dst.shutdown(socket.SHUT_WR) (its exception is ignored)
FwdShutdown(e) ==
  /\ fwd[e] = "shutdown"
  /\ fwd' = [fwd EXCEPT ![e] = "done"]
  /\ session' = [session EXCEPT !.fin[Other(e)] = TRUE]
  /\ UNCHANGED <<cfg, clock, server, portvars, clientvars, peer, inbuf>>

\* a handler that closes the sockets when one copy thread has finished
SessionCloseEarly ==
  /\ session.pc = "forward"
  /\ \E e \in Ends : fwd[e] = "done"
  /\ session' = [session EXCEPT !.pc = "done", !.conn = "closed", !.target = "closed"]
  /\ UNCHANGED <<cfg, clock, server, portvars, clientvars, peer, inbuf, fwd>>

\* t1.join(); t2.join(); client_conn.close(); target_conn.close()
SessionClose ==
  /\ session.pc = "forward"
  /\ \A e \in Ends : fwd[e] = "done"
  /\ session' = [session EXCEPT !.pc = "done", !.conn = "closed", !.target = "closed"]
  /\ UNCHANGED <<cfg, clock, server, portvars, clientvars, peer, inbuf, fwd>>

\* the remote endpoints: they send, shut down their writing side, or close
PeerSend(e) ==
  /\ session.pc = "forward"
  /\ peer[e].state = "open" /\ peer[e].left > 0 /\ inbuf[e] < MaxBuf
  /\ peer' = [peer EXCEPT ![e].left = @ - 1]
  /\ inbuf' = [inbuf EXCEPT ![e] = @ + 1]
  /\ UNCHANGED <<cfg, clock, server, portvars, clientvars, fwd, session>>

PeerShutdown(e) ==
  /\ session.pc = "forward"
  /\ peer[e].state = "open"
  /\ peer' = [peer EXCEPT ![e].state = "shut_wr"]
  /\ UNCHANGED <<cfg, clock, server, portvars, clientvars, inbuf, fwd, session>>

PeerClose(e) ==
  /\ session.pc = "forward"
  /\ peer[e].state \in {"open", "shut_wr"}
  /\ peer' = [peer EXCEPT ![e].state = "closed"]
  /\ UNCHANGED <<cfg, clock, server, portvars, clientvars, inbuf, fwd, session>>

\* the steps the handler and its two copy threads take on their own
SessionStep ==
  \/ SessionConnect
  \/ SessionClose
  \/ \E e \in Ends : FwdRecvData(e)
  \/ \E e \in Ends : FwdRecvEof(e)
  \/ \E e \in Ends : FwdSend(e)
  \/ \E e \in Ends : FwdShutdown(e)

NextSession ==
  \/ SessionStep
  \/ SessionConnectError
  \/ \E e \in Ends : FwdRecvError(e)
  \/ \E e \in Ends : PeerSend(e)
  \/ \E e \in Ends : PeerShutdown(e)
  \/ \E e \in Ends : PeerClose(e)

SpecSession == InitSession /\ [][NextSession]_vars

\* threads that can run do run; the remote endpoints are under no obligation
SpecSessionFair == SpecSession /\ WF_vars(SessionStep)

(* ======================= properties of the server ====================== *)
OpenIds == { s \in SockIds : socks[s].state = "open" }
\* the live (open and registered) sockets the selector holds for an offset
LiveFor(o) == { k.fileobj : k \in { x \in sel : x.data = o /\ x.fileobj \in OpenIds } }

\* the tick's for loop has finished and the loop has not started the next one
TickDone == pc \in {"wait", "sleep", "select", "events"}

\* window starts that a run can meet
WindowStarts == { k * cfg.interval : k \in 0..(Windows + 4) }

RegistryAtMostOne ==
  \A o \in AllOffsets :
    /\ Cardinality(LiveFor(o)) <= 1
    /\ Cardinality({ k \in sel : k.data = o }) <= 1
    /\ HasInfo(o) => LiveFor(o) = {sockets[o].sock}
    /\ ~HasInfo(o) => LiveFor(o) = {}

\* a step that binds a socket for an offset starts from a state in which the
\* offset has no entry and no open registered socket
BoundAfterRemoval ==
  \A o \in AllOffsets :
    (HasInfo(o)' /\ sockets'[o] # sockets[o]) =>
       /\ ~HasInfo(o)
       /\ LiveFor(o) = {}
       /\ \A k \in sel : k.data # o

\* C1: in every reachable state of the acceptor loop (TCP and UDP) each
\* offset has at most one live (open, registered) socket, which is the one of
\* its record; and a new socket for an offset is bound only in a state where
\* the old record has been removed and its socket closed and unregistered.
C1_RegistryInvariant == [](RegistryAtMostOne) /\ [][BoundAfterRemoval]_vars

\* a record has been replaced: the second window's record is in the registry
C1_Witness ==
  \E o \in Offsets :
    /\ HasInfo(o)
    /\ sockets[o].valid_start > StartTime(cfg)
    /\ Cardinality(LiveFor(o)) = 1

RecordConsistent(r) ==
  \E W \in WindowStarts :
    /\ r.valid_start = W - cfg.extend
    /\ r.valid_end = W + cfg.interval + cfg.extend
    /\ r.port = cfg.base_port + (at(cfg.secret, cfg.interval, W) % cfg.port_range)
    /\ socks[r.sock].state = "open"
    /\ socks[r.sock].port = r.port

RecordsConsistent == \A o \in AllOffsets : HasInfo(o) => RecordConsistent(sockets[o])

\* while an offset keeps its socket, its record and the socket do not change
RecordsImmutable ==
  \A o \in AllOffsets :
    (HasInfo(o) /\ HasInfo(o)' /\ sockets'[o].sock = sockets[o].sock) =>
       /\ sockets'[o] = sockets[o]
       /\ socks'[sockets[o].sock] = socks[sockets[o].sock]

\* C2: every record of the registry has, for some window start W that is a
\* multiple of interval, valid_start = W - extend, valid_end = W + interval +
\* extend and port = base_port + OTP(W) mod port_range; its socket is open
\* and bound to that port; and the record is never changed while it exists.
C2_RecordsConsistent == [](RecordsConsistent) /\ [][RecordsImmutable]_vars

\* a record survives a later tick of the loop unchanged
C2_Witness ==
  \E o \in Offsets :
    /\ HasInfo(o)
    /\ pc = "create"
    /\ LoopOffset = o
    /\ now > sockets[o].valid_start + cfg.extend

IsScenario == cfg.interval = 30 /\ cfg.extend = 15 /\ cfg.offsets = <<0>>

\* C3: in the scenario (interval 30, extend 15, offsets [0]), after every tick
\* at a time now with W - extend <= now < W + interval + extend, the port
\* derived for window start W is being listened on (the offset has a record,
\* so no bind failed).
C3_ListeningSpan ==
  (IsScenario /\ TickDone /\ HasInfo(0)) =>
     \A W \in WindowStarts :
       (W - cfg.extend <= now /\ now < W + cfg.interval + cfg.extend) =>
          DerivePort(cfg, W) \in BoundPorts

\* C9: once the acceptor loop has been ended by process shutdown, every
\* socket of the registry has been unregistered and closed: nothing is left
\* registered or open at exit.
C9_ShutdownClosesAll == pc = "exited" => (sel = {} /\ OpenIds = {})

(* ================= properties of the server under traffic ============== *)
HandlerFinished(t) == cfg.protocol = "udp" /\ threads[t].pc = "done"

\* C8: for a datagram handled by a server handler thread, under every
\* interleaving with the loop's ticks: if the target replied R within the
\* timeout, exactly R has been sent back to the sender's address when the
\* handler ends; if no reply came, nothing has been sent back.
C8_UdpExchange ==
  \A t \in ThreadIds :
    HandlerFinished(t) =>
      IF threads[t].response # ""
        THEN threads[t].sent = <<[to |-> threads[t].addr, payload |-> threads[t].response]>>
        ELSE threads[t].sent = <<>>

LoopAlive == pc # "crashed"

registry == <<sockets, sel>>

\* a step of a handler thread leaves the loop, the registry, the open
\* sockets and every other handler as they are
HandlerIsolated ==
  \A t \in ThreadIds :
    Handler(t) =>
      /\ UNCHANGED <<loopvars, registry, events, backlog>>
      /\ \A u \in ThreadIds \ {t} : threads'[u] = threads[u]
      /\ \A x \in OpenIds : socks'[x] = socks[x]

\* an accept() or recvfrom() that fails leaves the registry and the handlers
\* as they are, and the loop goes on with the next event or the next tick
EventErrorIsolated ==
  \A k \in events :
    (AcceptError(k) \/ RecvError(k)) =>
      /\ UNCHANGED <<registry, socks, threads>>
      /\ pc' \in {"top", "events"}

IsTcp == cfg.protocol = "tcp"
Attempts == local.attempts
Last(q) == q[Len(q)]

\* the attempts follow the configured offsets, position by position
InConfiguredOrder ==
  /\ Len(Attempts) <= Len(cfg.offsets)
  /\ \A j \in 1..Len(Attempts) : Attempts[j].offset = cfg.offsets[j]

\* only the last attempt can have succeeded, and the connection in use is
\* the one that attempt made
FirstSuccessUsed ==
  /\ \A j \in 1..Len(Attempts) : Attempts[j].ok => j = Len(Attempts)
  /\ local.server_conn # 0 =>
       (Attempts # <<>> /\ Last(Attempts).ok /\ Last(Attempts).port = local.server_conn)
  /\ local.forwarded => local.server_conn # 0

\* an attempt derives its port from the clock at that moment plus its offset
\* and succeeds exactly when that port is reachable; after a success no
\* further attempt is made for the connection
AttemptStep ==
  Len(local'.attempts) = Len(Attempts) + 1 =>
    LET a == Last(local'.attempts) IN
      /\ local.server_conn = 0
      /\ a.port = get_totp_port(cfg, clock + a.offset)
      /\ a.ok = (a.port \in listening)
      /\ a.ok => local'.server_conn = a.port

\* C5: for a local TCP connection the client tries the configured offsets in
\* their order, each once, with the port derived from the time of the attempt
\* plus the offset; it stops at the first connect that succeeds and forwards
\* over that connection (so when only the 0-offset port is reachable, the
\* attempt at offset 0 connects to it).
C5_OffsetFallback ==
  [](IsTcp => (InConfiguredOrder /\ FirstSuccessUsed)) /\ [][IsTcp => AttemptStep]_vars

\* offsets [-15, 0, 15], only the 0-offset port reachable: the attempt at
\* -15 has failed on another port and the one at 0 has connected
C5_Witness ==
  /\ IsTcp
  /\ cfg.offsets = <<-15, 0, 15>>
  /\ local.pc = "forward"
  /\ Len(Attempts) = 2
  /\ ~Attempts[1].ok
  /\ Attempts[2].ok
  /\ Attempts[1].port # Attempts[2].port
  /\ listening = {get_totp_port(cfg, clock)}
  /\ local.server_conn = get_totp_port(cfg, clock)

AllFailed ==
  /\ Len(Attempts) = Len(cfg.offsets)
  /\ \A j \in 1..Len(Attempts) : ~Attempts[j].ok

\* C6: when the connect (TCP) or the exchange (UDP) has failed for every
\* configured offset, the handler ends with the local connection closed and
\* no forwarding started (TCP), or with nothing sent back (UDP); and the
\* client loop can still dispatch the next connection.
C6_AllOffsetsFail ==
  (local.pc = "done" /\ AllFailed) =>
     /\ ~local.forwarded
     /\ local.server_conn = 0
     /\ local.replies = 0
     /\ IsTcp => local.local_conn = "closed"
     /\ served < MaxServed => ENABLED ClientAccept

\* a handler gave up, and the loop has dispatched a later connection which
\* is being forwarded
C6_Witness ==
  /\ local.after_drop
  /\ local.pc \in {"forward", "done"}
  /\ local.server_conn # 0 \/ local.replies > 0

(* ================= properties of a TCP forwarding session ============== *)
SessionOver ==
  /\ session.pc = "done"
  /\ session.conn = "closed"
  /\ session.target = "closed"
  /\ \A e \in Ends : fwd[e] = "done"

Established == session.pc = "forward"
SomeEndClosed == \E e \in Ends : peer[e].state = "closed"
BothEndsClosed == \A e \in Ends : peer[e].state = "closed"

\* C7 as claimed: in an established session, once either endpoint has closed
\* its connection, both copy tasks eventually finish, the handler returns and
\* both session sockets are closed, whatever the other endpoint does.
C7_EitherCloseEnds == (Established /\ SomeEndClosed) ~> SessionOver

\* C7, what the code does guarantee: once both endpoints have closed their
\* connections, both copy tasks eventually finish, the handler returns and
\* both session sockets are closed.
C7_BothCloseEnds == (Established /\ BothEndsClosed) ~> SessionOver

\* both endpoints have closed and the session has been wound up
C7_Witness == BothEndsClosed /\ SessionOver /\ session.out["target"] > 0

(* ============== properties of the registry: binds and ticks ============ *)
\* nothing is stored or registered for an offset whose bind has failed, until
\* the for loop comes to that offset again
BindFailureLeavesNothing ==
  \A o \in bind_failed :
    /\ ~HasInfo(o)
    /\ \A k \in sel : k.data # o

\* the step in which the bind for the loop's offset fails changes neither
\* the registry nor any socket, and the for loop goes on with the next
\* offset (or, after the last one, with the wait)
BindFailureStep ==
  (Create /\ LoopOffset \in bind_failed') =>
     /\ UNCHANGED <<sockets, sel, socks, next_timeout>>
     /\ pc' = NextPc
     /\ i < Len(cfg.offsets) => i' = i + 1

\* when the for loop comes again to an offset whose bind failed, the offset
\* has no record: the `if not info` branch is taken
RetryBranchTaken ==
  (pc = "create" /\ LoopOffset \in bind_failed) => NeedsSocket(LoopOffset)

\* ... and the bind is attempted in that tick
RetryAttempted ==
  (pc = "create" /\ LoopOffset \in bind_failed) =>
     (NeedsSocket(LoopOffset) /\ now >= win.valid_start)

\* C11 as claimed: a failed bind stores and registers nothing for the offset,
\* the remaining offsets are processed in the same tick, the loop does not
\* terminate, and the bind for that offset is attempted again on the next tick.
C11_BindRetriedNextTick ==
  /\ [](BindFailureLeavesNothing /\ LoopAlive /\ RetryAttempted)
  /\ [][BindFailureStep]_vars

\* C11 amended: a failed bind stores and registers nothing for the offset,
\* the remaining offsets are processed in the same tick, the loop does not
\* terminate, and on the next tick the offset is still without a record, so
\* that the tick attempts the bind again if its now >= the valid_start of the
\* window it derives (and otherwise lowers the timeout to valid_start - now).
C11_BindFailureHandled ==
  /\ [](BindFailureLeavesNothing /\ LoopAlive /\ RetryBranchTaken)
  /\ [][BindFailureStep]_vars

\* the bind of an offset failed in one tick, and a later tick whose window is
\* valid comes to that offset again while another offset has its record
C11_Witness ==
  \E o \in Offsets :
    /\ o \in bind_failed
    /\ pc = "create" /\ LoopOffset = o
    /\ now > wait_start
    /\ now >= win.valid_start
    /\ \E p \in Offsets \ {o} : HasInfo(p)

\* what removing a record does: unregistered, closed, entry deleted
Retired(o) ==
  /\ ~HasInfo(o)'
  /\ socks'[sockets[o].sock].state # "open"
  /\ \A k \in sel' : k.fileobj # sockets[o].sock /\ k.data # o

\* the record of an offset and its registration are as before
RecordKept(o) ==
  /\ sockets'[o] = sockets[o]
  /\ socks'[sockets[o].sock] = socks[sockets[o].sock]
  /\ { k \in sel' : k.data = o } = { k \in sel : k.data = o }

\* the retirement test of a tick for the loop's offset; win' holds the port
\* the tick derives
RetirementRule ==
  (Retire /\ HasInfo(LoopOffset)) =>
     IF now >= sockets[LoopOffset].valid_end \/ win'.port # sockets[LoopOffset].port
       THEN Retired(LoopOffset)
       ELSE RecordKept(LoopOffset)

\* every other step, and the tick's steps for the other offsets, leave a record
\* as it is
RetirementFrame ==
  \A o \in AllOffsets :
    (HasInfo(o) /\ ~(Retire /\ LoopOffset = o)) => RecordKept(o)

\* C14: in a tick at time now, an existing record of an offset is retired
\* (unregistered, closed, entry removed) if and only if now >= its valid_end or
\* the port derived for the offset at this tick differs from its port; in
\* every other case the tick leaves the record and its registration unchanged.
C14_RetirementRule == [][RetirementRule /\ RetirementFrame]_vars

\* a tick has retired the record of one offset before its valid_end (the
\* derived port changed) and has kept the record of another
C14_Witness ==
  \E o, q \in Offsets :
    /\ pc = "create" /\ LoopOffset = o
    /\ created[o] > 0 /\ ~HasInfo(o)
    /\ now < win.valid_start + 2 * cfg.extend
    /\ HasInfo(q) /\ sockets[q].valid_start + cfg.extend < now

\* the record of an offset is current at the loop's `now`
Current(o) == sockets[o].valid_start <= now /\ now < sockets[o].valid_end

\* C15: for every integer offset and every tick time now, each record that is
\* in the registry when the tick's for loop has finished satisfies
\* valid_start <= now < valid_end: no socket is created before its window's
\* valid_start, and no record with valid_end <= now survives the tick or is
\* created by it.
C15_RecordsCurrent ==
  TickDone => \A o \in Offsets : HasInfo(o) => Current(o)

\* the window of now + offset
WindowNow(o) == get_window_params(cfg, now, o)

\* the offset has a record whose socket is open, registered and bound to port
ListensOn(o, port) ==
  /\ HasInfo(o)
  /\ sockets[o].port = port
  /\ LiveFor(o) = {sockets[o].sock}
  /\ socks[sockets[o].sock].port = port

\* C16: provided no other process holds the ports, after every tick (taken
\* at one instant: no time has passed since `now` was read) each configured
\* offset whose window has now >= valid_start has a live record bound to
\* the port derived for window_start(now + offset); for all configured
\* offsets at once, also when their windows coincide.
C16_ListenerPerOffset ==
  (TickDone /\ clock = now) =>
     \A o \in Offsets :
       now >= WindowNow(o).valid_start => ListensOn(o, WindowNow(o).port)

\* a run lasts Boundaries * interval + 1 seconds, which lie within
\* Boundaries + 1 consecutive intervals
SpanIntervals == Boundaries(cfg) + 1

\* sockets created for each offset during the run: at most k + 1 for a span
\* of k intervals
ChurnBounded == \A o \in Offsets : created[o] <= SpanIntervals + 1

\* a tick whose derived port is the record's and whose now < valid_end
\* neither closes nor binds for the offset
QuietTick ==
  \A o \in Offsets :
    (/\ HasInfo(o) /\ LoopOffset = o
     /\ (Retire \/ CreateAlone)
     /\ win'.port = sockets[o].port
     /\ now < sockets[o].valid_end)
      => (RecordKept(o) /\ created'[o] = created[o])

\* C17: in a run where binds succeed, for every integer offset, the number
\* of socket creations for the offset during a span of k consecutive
\* intervals is at most k + 1, however many ticks occur; a tick in which the
\* derived port is unchanged and now < valid_end performs no bind and no
\* close for the offset.
C17_BoundedChurn == [](ChurnBounded) /\ [][QuietTick]_vars

RECURSIVE MinOf(_)
\* the least element of a non-empty finite set of integers
MinOf(S) ==
  LET x == CHOOSE y \in S : TRUE
  IN IF S = {x} THEN x ELSE Min(x, MinOf(S \ {x}))

\* offsets left without a record because now < valid_start
Pending0 == { o \in Offsets : ~HasInfo(o) /\ now < WindowNow(o).valid_start }

\* the timeout the claim describes, for a tick taken at the instant `now`
ExpectedTimeout ==
  MinOf({Ceiling}
        \cup { sockets[o].valid_end - now : o \in { x \in Offsets : HasInfo(x) } }
        \cup { WindowNow(o).valid_start - now : o \in Pending0 })

Waiting == pc \in {"sleep", "select"}

\* the loop waits with the expected timeout, in sleep exactly when nothing
\* is registered in TCP mode
TimeoutIsMinimum ==
  (Waiting /\ wait_start = now) =>
     /\ next_timeout = ExpectedTimeout
     /\ pc = "sleep" => sel = {}
     /\ (pc = "select" /\ cfg.protocol = "tcp") => sel # {}

\* the timeout is below every record's valid_end - now whenever the loop waits
TimeoutWithinRecords ==
  Waiting =>
     /\ next_timeout <= Ceiling
     /\ \A o \in Offsets : HasInfo(o) => next_timeout <= sockets[o].valid_end - now

\* how the steps of one iteration build the timeout
TimeoutSteps ==
  /\ LoopTop => next_timeout' = Ceiling
  /\ Retire => next_timeout' = next_timeout
  /\ Create =>
       next_timeout' =
         IF ~HasInfo(LoopOffset) /\ now < win.valid_start
           THEN Min(next_timeout, win.valid_start - now)
           ELSE next_timeout
  /\ (SleepReturn \/ SelectReturn) => next_timeout' = next_timeout

\* C18: in every loop iteration the timeout passed to select (or to sleep
\* when no socket is registered) is the minimum of the 5 s ceiling, of
\* valid_end - now over every record present after the tick, and of
\* valid_start - now over every offset left without a record because
\* now < valid_start; the loop does not wait past the nearest of them.
C18_WakeUpDeadline ==
  /\ [](TimeoutIsMinimum /\ TimeoutWithinRecords)
  /\ [][TimeoutSteps]_vars

\* the loop waits in select for less than the ceiling, until the valid_end of
\* a record
C18_Witness ==
  /\ pc = "select"
  /\ wait_start = now
  /\ next_timeout > 0 /\ next_timeout < Ceiling
  /\ \E o \in Offsets : HasInfo(o) /\ next_timeout = sockets[o].valid_end - now

(* ================== properties of the forwarding units ================= *)
\* the sockets the registry has created: every socket object of `socks` is or
\* was held in a SocketRecord
RegistrySockets == SockIds

\* a step in which a handler thread sends on a socket of the registry
UnitUsesRegistrySocket ==
  \E t \in ThreadIds : UdpReply(t) /\ threads[t].sock \in RegistrySockets

\* a step in which the loop closes a socket that a running handler holds
LoopClosesUsedSocket ==
  \E s \in SockIds :
    /\ Referenced(s)
    /\ socks[s].state = "open"
    /\ socks'[s].state = "closed"

\* C19: no forwarding unit (TCP session thread or UDP datagram handler) reads
\* from, writes to or closes a socket that is or was held in a SocketRecord,
\* and the acceptor loop never closes a socket a forwarding unit is using: a
\* unit touches only sockets it accepted or opened itself.
C19_UnitsOwnSockets == [][~UnitUsesRegistrySocket /\ ~LoopClosesUsedSocket]_vars

\* the copy thread that reads from endpoint e is still copying
Copying(e) == fwd[e] \in {"recv", "send"}

\* a step in which one direction stops, half-closes or finishes leaves the
\* other direction's thread where it is
StopsAlone ==
  \A e \in Ends :
    (fwd'[e] # fwd[e] /\ fwd'[e] \in {"shutdown", "done"}) =>
       fwd'[Other(e)] = fwd[Other(e)]

\* a direction stops copying only on what it sees itself: end-of-stream or an
\* error of its own recv, or an error of its own send
StopsOnOwnEvent ==
  \A e \in Ends :
    (Copying(e) /\ fwd'[e] = "shutdown") =>
       \/ fwd[e] = "recv" /\ (EofSeen(e) \/ peer[e].state = "closed")
       \/ fwd[e] = "send" /\ peer[Other(e)].state = "closed"

\* a direction that has finished has shut down the write side of its
\* destination, and nothing else shuts it down
HalfClosedByOwnDirection ==
  \A e \in Ends : session.fin[Other(e)] <=> fwd[e] = "done"

\* while forwarding both session sockets are open; they are closed only when
\* both directions have finished
ClosedAfterBoth ==
  /\ session.pc = "forward" =>
       (session.conn = "open" /\ session.target = "open")
  /\ session.target = "closed" => \A e \in Ends : fwd[e] = "done"

TargetConnectFailed == session.pc = "done" /\ session.target = "none"

\* nothing of the forwarding has happened
NoForwarding ==
  /\ \A e \in Ends : fwd[e] = "idle"
  /\ \A e \in Ends : session.out[e] = 0
  /\ \A e \in Ends : ~session.fin[e]

\* the step in which create_connection raises
TargetConnectFails == session.pc = "connect" /\ session'.pc = "done"

\* C21: when the server has accepted an inbound connection and the connection
\* to the target fails, the handler closes the inbound connection and
\* returns; no copy thread is started and no byte is relayed in either
\* direction, then or later.
C21_TargetConnectFailure ==
  /\ [][TargetConnectFails =>
          /\ session'.conn = "closed"
          /\ session'.target = "none"
          /\ NoForwarding']_vars
  /\ [](TargetConnectFailed => session.conn = "closed" /\ NoForwarding)

\* the target connection has failed for an accepted inbound connection
C21_Witness ==
  /\ TargetConnectFailed
  /\ session.conn = "closed"
  /\ \A e \in Ends : peer[e].left = MaxBytes

(* ------------------ C22: the timeout handed to the wait ---------------- *)
\* the loop is inside time.sleep(next_timeout) or select(timeout=next_timeout)
InWait == pc \in {"sleep", "select"}

\* the value handed to the wait is positive and at most 5 s
WaitBounded == InWait => 0 < next_timeout /\ next_timeout <= Ceiling

\* every offset lies within the extension: offset >= -extend
OffsetsWithinExtend == \A o \in Offsets : o >= -cfg.extend

\* C22: in every iteration of the server loop, for every configuration of
\* signed integer offsets, the next_timeout passed to time.sleep or to
\* select satisfies 0 < next_timeout <= 5: sleep is never called with a
\* negative value and select is never turned into a non-blocking poll.
C22_PositiveBoundedWait == WaitBounded

\* C22, what the code does guarantee: the timeout is positive and at most 5 s
\* when no offset is below -extend, and time.sleep is never handed a negative
\* value (the loop never dies of its ValueError)
C22_BoundedWaitWithinExtend ==
  /\ OffsetsWithinExtend => WaitBounded
  /\ pc = "sleep" => 0 < next_timeout /\ next_timeout <= Ceiling
  /\ pc # "crashed"

(* --------------- C23: client and server meet on some port -------------- *)
\* the ports Client.handle_tcp_connection / handle_udp_packet would try at
\* time t: get_totp_port(t + offset) over the configured offsets
ClientPorts(t) == { get_totp_port(cfg, t + o) : o \in Offsets }

\* a record whose socket is open
LiveRecord(o) == HasInfo(o) /\ socks[sockets[o].sock].state = "open"

\* some port the client would compute now is bound by a live record
Rendezvous == \E o \in Offsets : LiveRecord(o) /\ sockets[o].port \in ClientPorts(clock)

\* the server is running and has completed its first tick
AfterFirstTick ==
  /\ pc \notin {"crashed", "exited"}
  /\ \/ pc \in {"wait", "sleep", "select", "events"}
     \/ now > StartTime(cfg)
     \/ pc = "top" /\ \E o \in Offsets : created[o] > 0

\* C23: with the default configuration (interval 30, extend 15, offsets
\* -15, 0, 15), equal clocks and binds that fail only against this server's
\* own sockets, at every instant after the first tick at least one of the
\* ports the client would compute at that instant is bound by a live record.
C23_Rendezvous == AfterFirstTick => Rendezvous

\* no window edge of any offset fell between the tick's clock readings
SteadyTick ==
  \A o \in Offsets : WindowStart(cfg, now + o) = WindowStart(cfg, wait_start + o)

\* C23, what the code does guarantee: over UDP the client and the server
\* always share a port; over TCP they do while the loop waits after a tick
\* during which no offset crossed a window edge
C23_RendezvousBetweenTicks ==
  /\ cfg.protocol = "udp" /\ AfterFirstTick => Rendezvous
  /\ AfterFirstTick /\ InWait /\ SteadyTick => Rendezvous

\* C23, the loop waiting with no port in common with the client
C23_RendezvousInWait == AfterFirstTick /\ InWait => Rendezvous

(* ------------- C24: a port hop and the established sessions ------------ *)
\* handler t relays an accepted TCP connection (bidirectional_forward_tcp runs)
Relaying(t) == threads[t].pc = "forward"

\* the listener on which t's connection was accepted has been retired
ListenerRetired(t) == threads[t].port # 0 /\ threads[t].port \notin BoundPorts

\* the loop's step closes the listening socket of a record
Retiring == pc = "retire" /\ \E o \in Offsets : HasInfo(o) /\ sockets'[o] = NoInfo

\* a relaying session has both of its sockets open, whether or not its
\* listener still exists
SessionSocketsOpen ==
  \A t \in ThreadIds :
    Relaying(t) => threads[t].conn = "open" /\ threads[t].target = "open"

\* retiring a record changes no handler thread
RetireLeavesSessions == Retiring => threads' = threads

\* a relaying session changes only by ending (its two directions have met
\* end-of-stream or an I/O error), in a step that is not the loop's
SessionEndsAlone ==
  \A t \in ThreadIds :
    Relaying(t) /\ threads'[t] # threads[t] =>
      /\ threads'[t].pc = "done"
      /\ threads'[t].conn = "closed" /\ threads'[t].target = "closed"
      /\ UNCHANGED <<pc, sockets, socks, sel>>

\* C24: retiring a record (closing the listener because its window expired
\* or its port changed) leaves every TCP session accepted on that listener
\* unchanged: both of the session's sockets stay open and the session goes on
\* relaying until it ends by its own end-of-stream or I/O error.
C24_HopKeepsSessions ==
  /\ [](SessionSocketsOpen)
  /\ [][RetireLeavesSessions]_vars
  /\ [][SessionEndsAlone]_vars

\* a session relays after its listener was retired and replaced
C24_Witness ==
  \E t \in ThreadIds :
    /\ Relaying(t)
    /\ ListenerRetired(t)
    /\ threads[t].conn = "open" /\ threads[t].target = "open"
    /\ \E o \in Offsets : LiveRecord(o) /\ sockets[o].port # threads[t].port

(* ------------------ C25: one datagram, how many deliveries ------------- *)
\* the handler of one local datagram has sent its payload to a listening
\* server port at most once (the server relays each copy to the target)
PayloadAtMostOnce == cfg.protocol = "udp" => local.relayed <= 1

\* the handler has sent at most one reply back to the local sender
ReplyAtMostOnce == cfg.protocol = "udp" => local.replies <= 1

\* C25: for one datagram received by the client on its local socket, across
\* the client's offset loop and the server's relay, the target receives the
\* payload at most once and the local sender receives at most one reply; a
\* reply timeout on one offset does not deliver the payload again.
C25_UdpAtMostOnce == PayloadAtMostOnce /\ ReplyAtMostOnce

\* C25, what the code does guarantee: at most one reply per local datagram,
\* and at most one copy of the payload per configured offset
C25_UdpBoundedCopies ==
  /\ ReplyAtMostOnce
  /\ cfg.protocol = "udp" => local.relayed <= Len(local.attempts)
  /\ Len(local.attempts) <= Len(cfg.offsets)

====
